---- MODULE Spec2Model ----
(***************************************************************************)
(* Flight location simulator: the GPSDataServer broadcaster (XGPS and      *)
(* GDL-90 variants) as a state machine over the Node.js event loop.  Every *)
(* action is one run-to-completion JavaScript job: an API call made by the *)
(* owner, a socket event callback, a timer callback or a send completion.  *)
(* The GDL-90 encoder's pure functions are operators, applied to bounded   *)
(* inputs under the specification EncSpec.                                 *)
(***************************************************************************)
EXTENDS Integers, Sequences, FiniteSets, TLC

\* ------------------------------------------------------------------ bounds

\* Sockets that may be open (not closed, not dead) at the same time.
MaxSockets == 2
\* Interval timers that may be live at the same time.
MaxTimers == 3
\* Longest payload handed to the encoder's framing functions, in bytes.
MaxPayloadLen == 3

SocketIds == 1..MaxSockets
TimerIds == 1..MaxTimers

\* null for the socket and the two interval handles.
Nil == 0

Variants == {"XGPS", "GDL90"}

\* ---------------------------------------------------------- input domains

\* The position the XGPS constructor stores (latitude and longitude in 1e-4
\* degrees, altitude in feet, heading in degrees, speeds in knots and fpm).
DefaultPosition ==
    [latitude |-> 398283, longitude |-> -985795, altitude |-> 5000,
     heading |-> 0, groundSpeed |-> 0, verticalSpeed |-> 0]

\* A second position handed to updatePosition.
OtherPosition ==
    [latitude |-> 398561, longitude |-> -1046737, altitude |-> 7500,
     heading |-> 90, groundSpeed |-> 120, verticalSpeed |-> 640]

Positions == {DefaultPosition, OtherPosition}

DefaultPortXGPS == 49002
DefaultPortGDL90 == 4000
DefaultUpdateRate == 1

Ports == {DefaultPortGDL90, DefaultPortXGPS}
TargetIPs == {"", "192.168.1.100"}
UpdateRates == {DefaultUpdateRate, 5}

\* A Partial<GPSServerConfig>: each field absent (<<>>) or present (<<v>>).
Opt(S) == {<<>>} \cup {<<v>> : v \in S}

Patches == [port : Opt(Ports), targetIP : Opt(TargetIPs), updateRate : Opt(UpdateRates)]

\* ------------------------------------------------------------------- state

VARIABLES
    variant,            \* which GPSDataServer class this instance is
    isRunning,          \* this.isRunning
    socket,             \* this.socket: Nil or a socket id
    config,             \* this.config
    currentPosition,    \* this.currentPosition: <<>> (null) or <<position>>
    heartbeatInterval,  \* this.heartbeatInterval: Nil or a timer id
    positionInterval,   \* this.positionInterval: Nil or a timer id
    sockets,            \* every dgram socket created: its bind state, and whether the
                        \* promise of the start() that created it is pending or settled
    timers,             \* every interval timer: kind and period, "none" when cleared
    sendPending,        \* some socket.send callback has not run yet
    lastSent,           \* the datagrams the last job handed to socket.send
    last,               \* the last job and its outcome
    enc,                \* the encoder at work on one message: the payload, and the
                        \* CRC, message, escaped bytes and frame computed so far
    hist                \* history, read by the properties only:
                        \*   quiet: stop() has returned and no start() has resolved since
                        \*   startOpen: start() was accepted and stop() not called since
                        \*   wasStopped: some stop() took the server from running to stopped
                        \*   stale: the position or the destination was replaced after
                        \*          the position interval was armed

vars == <<variant, isRunning, socket, config, currentPosition, heartbeatInterval,
          positionInterval, sockets, timers, sendPending, lastSent, last, hist, enc>>

\* The broadcaster's part of the state.
server == <<variant, isRunning, socket, config, currentPosition, heartbeatInterval,
            positionInterval, sockets, timers, sendPending, lastSent, last, hist>>

\* No argument handed to a message creator.
NoInput == [kind |-> "none", hours |-> 0, minutes |-> 0, seconds |-> 0,
            position |-> DefaultPosition]

\* The encoder with no message at hand.
EncIdle == [pc |-> "idle", input |-> NoInput, payload |-> <<>>, crc |-> 0,
            message |-> <<>>, escaped |-> <<>>, framed |-> <<>>, text |-> ""]

FreeSocket == [st |-> "free", prom |-> "none"]
NoTimer == [kind |-> "none", period |-> 0]

\* constructor: new GPSDataServer() as getGPSServerInstance() builds it.
ConstructorConfig(v) ==
    IF v = "XGPS"
    THEN [port |-> DefaultPortXGPS, targetIP |-> "", updateRate |-> DefaultUpdateRate]
    ELSE [port |-> DefaultPortGDL90, targetIP |-> "", updateRate |-> DefaultUpdateRate]

ConstructorPosition(v) == IF v = "XGPS" THEN <<DefaultPosition>> ELSE <<>>

InitServer ==
    /\ variant \in Variants
    /\ isRunning = FALSE
    /\ socket = Nil
    /\ config = ConstructorConfig(variant)
    /\ currentPosition = ConstructorPosition(variant)
    /\ heartbeatInterval = Nil
    /\ positionInterval = Nil
    /\ sockets = [s \in SocketIds |-> FreeSocket]
    /\ timers = [t \in TimerIds |-> NoTimer]
    /\ sendPending = FALSE
    /\ lastSent = <<>>
    /\ last = [op |-> "init", res |-> "ok"]
    /\ hist = [quiet |-> FALSE, startOpen |-> FALSE, wasStopped |-> FALSE, stale |-> FALSE]

Init == InitServer /\ enc = EncIdle

\* ----------------------------------------------------------------- helpers

\* Socket slots a new dgram.createSocket may take: never used, closed, or
\* failed to bind (such a socket emits nothing more).
ReusableSockets(socks) == {s \in SocketIds : socks[s].st \in {"free", "closed", "unbound"}}

\* Garbage collection: a socket that can emit no further event and that
\* nothing refers to (closed with its promise settled, or unbound and not
\* this.socket) gives its slot back.
Collect(socks, ref) ==
    [s \in SocketIds |->
        IF \/ socks[s].st = "closed" /\ socks[s].prom # "pending"
           \/ socks[s].st = "unbound" /\ s # ref
        THEN FreeSocket
        ELSE socks[s]]

FreeTimers(tmrs) == {t \in TimerIds : tmrs[t].kind = "none"}

Lowest(S) == CHOOSE x \in S : \A y \in S : x <= y

LiveTimers == {t \in TimerIds : timers[t].kind # "none"}

\* socket.close().  A socket that is still binding has the sends made through
\* it queued, and dgram queues the close behind them: it is carried out once
\* the socket is bound, after the 'listening' callback.
Close(socks, s) ==
    [socks EXCEPT ![s].st = IF @ = "binding" THEN "closing" ELSE "closed"]

\* clearInterval(handle)
ClearInterval(tmrs, h) == [t \in TimerIds |-> IF t = h THEN NoTimer ELSE tmrs[t]]

\* The fields of the position each encoder reads.
OwnshipFields(p) ==
    <<p.latitude, p.longitude, p.altitude, p.groundSpeed, p.verticalSpeed, p.heading>>

GeoAltFields(p) == <<p.altitude>>

XGPSFields(p) == <<p.longitude, p.latitude, p.altitude, p.heading, p.groundSpeed>>


\* { ...this.config, ...config }
Merge(cfg, patch) ==
    [port |-> IF patch.port = <<>> THEN cfg.port ELSE patch.port[1],
     targetIP |-> IF patch.targetIP = <<>> THEN cfg.targetIP ELSE patch.targetIP[1],
     updateRate |-> IF patch.updateRate = <<>> THEN cfg.updateRate ELSE patch.updateRate[1]]

\* ------------------------------------------------------------------ sending

\* Mutant of CanSend: the guards test the socket only.
CanSend_SocketOnly(running, sock) == sock # Nil

\* The guard of sendHeartbeat, sendPosition and sendMessage:
\* if (!this.socket || !this.isRunning) return;
CanSend(running, sock) == sock # Nil /\ running

\* Mutant of sendMessage: the port is the one the constructor stored.
sendMessage_ConstructorPort(running, sock, cfg, cls, data) ==
    IF ~CanSend(running, sock)
    THEN <<>>
    ELSE <<[cls |-> cls, data |-> data, port |-> ConstructorConfig(variant).port,
            targetIP |-> cfg.targetIP, via |-> sock]>>

\* socket.send(message, this.config.port, this.config.targetIP, cb): the
\* datagram is addressed from the config as it is when the send is made.
sendMessage(running, sock, cfg, cls, data) ==
    IF ~CanSend(running, sock)
    THEN <<>>
    ELSE <<[cls |-> cls, data |-> data, port |-> cfg.port,
            targetIP |-> cfg.targetIP, via |-> sock]>>

sendHeartbeat(running, sock, cfg) ==
    IF ~CanSend(running, sock)
    THEN <<>>
    ELSE sendMessage(running, sock, cfg, "heartbeat", <<>>)

\* Mutant of sendPositionGDL90: the geometric altitude is that of the default
\* position, the ownship report that of the argument.
sendPositionGDL90_StoredAltitude(running, sock, cfg, p) ==
    IF ~CanSend(running, sock)
    THEN <<>>
    ELSE sendMessage(running, sock, cfg, "ownship", OwnshipFields(p))
         \o sendMessage(running, sock, cfg, "geoalt",
                        GeoAltFields(DefaultPosition))

\* GDL-90: an ownship report, then the geometric altitude of the same position.
sendPositionGDL90(running, sock, cfg, p) ==
    IF ~CanSend(running, sock)
    THEN <<>>
    ELSE sendMessage(running, sock, cfg, "ownship", OwnshipFields(p))
         \o sendMessage(running, sock, cfg, "geoalt", GeoAltFields(p))

\* XGPS: one XGPS line.
sendPositionXGPS(running, sock, cfg, p) ==
    IF ~CanSend(running, sock)
    THEN <<>>
    ELSE sendMessage(running, sock, cfg, "xgps", XGPSFields(p))

sendPosition(v, running, sock, cfg, p) ==
    IF v = "XGPS"
    THEN sendPositionXGPS(running, sock, cfg, p)
    ELSE sendPositionGDL90(running, sock, cfg, p)

\* Mutant of PositionPeriod: the period ignores the configured rate.
PositionPeriod_Fixed(cfg) == 1000

\* const intervalMs = 1000 / this.config.updateRate;
PositionPeriod(cfg) == 1000 \div cfg.updateRate

\* Mutant of HeartbeatPeriod: the heartbeat follows the configured rate.
HeartbeatPeriod_FromRate == 1000 \div config.updateRate

\* setInterval(() => { this.sendHeartbeat(); }, 1000)
HeartbeatPeriod == 1000

\* startPositionBroadcast(): arm the position interval, then send the stored
\* position at once.  Yields the timers, the new handle and the datagrams.
startPositionBroadcast(v, tmrs, running, sock, cfg, pos) ==
    LET t == Lowest(FreeTimers(tmrs))
    IN  [timers |-> [tmrs EXCEPT ![t] = [kind |-> "position", period |-> PositionPeriod(cfg)]],
         handle |-> t,
         sent |-> IF pos # <<>> THEN sendPosition(v, running, sock, cfg, pos[1]) ELSE <<>>]

\* startHeartbeat(): arm the 1 s heartbeat interval, then send one heartbeat.
startHeartbeat(tmrs, running, sock, cfg) ==
    LET t == Lowest(FreeTimers(tmrs))
    IN  [timers |-> [tmrs EXCEPT ![t] = [kind |-> "heartbeat", period |-> HeartbeatPeriod]],
         handle |-> t,
         sent |-> sendHeartbeat(running, sock, cfg)]

\* What every job leaves behind: the datagrams it submitted and its outcome.
Out(op, res, sent) ==
    /\ lastSent' = sent
    /\ last' = [op |-> op, res |-> res]
    /\ sendPending' = (sendPending \/ sent # <<>>)
    /\ UNCHANGED enc

\* -------------------------------------------------------------------- start

\* start(), up to the socket.bind call; the promise settles in a later job.
\* if (this.isRunning) throw new Error('GPS server is already running');
AlreadyRunning == isRunning

\* Mutant of AddressMissing: the address check is gone.
AddressMissing_Never == FALSE

\* if (!this.config.targetIP) throw new Error('Target IP address is required. ...');
AddressMissing == config.targetIP = ""

Start ==
    IF AlreadyRunning
    THEN /\ Out("start", "AlreadyRunning", <<>>)
         /\ UNCHANGED <<variant, isRunning, socket, config, currentPosition,
                        heartbeatInterval, positionInterval, sockets, timers, hist>>
    ELSE IF AddressMissing
    THEN /\ Out("start", "InvalidConfiguration", <<>>)
         /\ UNCHANGED <<variant, isRunning, socket, config, currentPosition,
                        heartbeatInterval, positionInterval, sockets, timers, hist>>
    ELSE /\ ReusableSockets(sockets) # {}
         /\ LET s == Lowest(ReusableSockets(sockets))
            IN  /\ sockets' = Collect([sockets EXCEPT ![s] = [st |-> "binding", prom |-> "pending"]], s)
                /\ socket' = s
         /\ hist' = [hist EXCEPT !.startOpen = TRUE]
         /\ Out("start", "pending", <<>>)
         /\ UNCHANGED <<variant, isRunning, config, currentPosition,
                        heartbeatInterval, positionInterval, timers>>

\* --------------------------------------------------------------------- stop

\* Mutant of AfterStop: no early return when the server is not running.
AfterStop_NoEarlyReturn ==
    [isRunning |-> FALSE, socket |-> Nil,
     heartbeatInterval |-> Nil, positionInterval |-> Nil,
     timers |-> ClearInterval(ClearInterval(timers, heartbeatInterval), positionInterval),
     sockets |-> IF socket # Nil THEN Close(sockets, socket) ELSE sockets]

\* stop(): the fields it leaves, as a record.
AfterStop ==
    IF ~isRunning
    THEN [isRunning |-> isRunning, socket |-> socket,
          heartbeatInterval |-> heartbeatInterval, positionInterval |-> positionInterval,
          timers |-> timers, sockets |-> sockets]
    ELSE [isRunning |-> FALSE, socket |-> Nil,
          heartbeatInterval |-> Nil, positionInterval |-> Nil,
          timers |-> ClearInterval(ClearInterval(timers, heartbeatInterval), positionInterval),
          sockets |-> IF socket # Nil THEN Close(sockets, socket) ELSE sockets]

HistAfterStop ==
    [quiet |-> TRUE, startOpen |-> FALSE, wasStopped |-> hist.wasStopped \/ isRunning,
     stale |-> hist.stale /\ AfterStop.positionInterval # Nil]

\* Mutant of Stop: stop() also forgets the stored position.
Stop_ForgetsPosition ==
    LET n == AfterStop
    IN  /\ isRunning' = n.isRunning
        /\ socket' = n.socket
        /\ heartbeatInterval' = n.heartbeatInterval
        /\ positionInterval' = n.positionInterval
        /\ timers' = n.timers
        /\ sockets' = Collect(n.sockets, n.socket)
        /\ hist' = HistAfterStop
        /\ Out("stop", IF isRunning THEN "stopped" ELSE "noop", <<>>)
        /\ currentPosition' = <<>>
        /\ UNCHANGED <<variant, config>>

Stop ==
    LET n == AfterStop
    IN  /\ isRunning' = n.isRunning
        /\ socket' = n.socket
        /\ heartbeatInterval' = n.heartbeatInterval
        /\ positionInterval' = n.positionInterval
        /\ timers' = n.timers
        /\ sockets' = Collect(n.sockets, n.socket)
        /\ hist' = HistAfterStop
        /\ Out("stop", IF isRunning THEN "stopped" ELSE "noop", <<>>)
        /\ UNCHANGED <<variant, config, currentPosition>>


\* ----------------------------------------------------------- updatePosition

\* Mutant of ArmsOnUpdate: the test of this.positionInterval is gone.
ArmsOnUpdate_Always == variant = "GDL90" /\ isRunning

\* GDL-90 updatePosition: if (this.isRunning && !this.positionInterval).
\* The XGPS updatePosition only assigns.
ArmsOnUpdate == variant = "GDL90" /\ isRunning /\ positionInterval = Nil

UpdatePosition(p) ==
    /\ currentPosition' = <<p>>
    /\ IF ArmsOnUpdate
       THEN /\ FreeTimers(timers) # {}
            /\ LET b == startPositionBroadcast(variant, timers, isRunning, socket, config, <<p>>)
               IN  /\ timers' = b.timers
                   /\ positionInterval' = b.handle
                   /\ Out("updatePosition", "armed", b.sent)
       ELSE /\ Out("updatePosition", "stored", <<>>)
            /\ UNCHANGED <<timers, positionInterval>>
    /\ hist' = [hist EXCEPT !.stale = ~ArmsOnUpdate /\ positionInterval # Nil /\
                    (hist.stale \/ currentPosition # <<p>>)]
    /\ UNCHANGED <<variant, isRunning, socket, config, heartbeatInterval, sockets>>

\* ------------------------------------------------------------- updateConfig

\* Mutant of RestartsOnConfig: the comparison of the rates is gone.
RestartsOnConfig_AnyPatch(newCfg) == isRunning /\ positionInterval # Nil

\* updateConfig: the rate changed while the position interval is armed.
RestartsOnConfig(newCfg) ==
    isRunning /\ positionInterval # Nil /\ config.updateRate # newCfg.updateRate

UpdateConfig(patch) ==
    LET newCfg == Merge(config, patch)
    IN  /\ config' = newCfg
        /\ IF RestartsOnConfig(newCfg)
           THEN LET b == startPositionBroadcast(variant, ClearInterval(timers, positionInterval),
                                                isRunning, socket, newCfg, currentPosition)
                IN  /\ timers' = b.timers
                    /\ positionInterval' = b.handle
                    /\ Out("updateConfig", "rearmed", b.sent)
           ELSE /\ Out("updateConfig", "merged", <<>>)
                /\ UNCHANGED <<timers, positionInterval>>
        /\ hist' = [hist EXCEPT !.stale = ~RestartsOnConfig(newCfg) /\ positionInterval # Nil /\
                        (hist.stale \/ <<newCfg.port, newCfg.targetIP>> # <<config.port, config.targetIP>>)]
        /\ UNCHANGED <<variant, isRunning, socket, currentPosition, heartbeatInterval,
                       sockets>>

\* ------------------------------------------------------------ socket events

\* XGPS bind callback: this.socket.setBroadcast(true) throws on a socket
\* that is not bound (this.socket may be a later start()'s socket).
SetBroadcastThrows(socks) == variant = "XGPS" /\ socks[socket].st # "bound"

\* startHeartbeat() (GDL-90) or startPositionBroadcast() (XGPS), with
\* this.isRunning already true.
BindStarts ==
    IF variant = "XGPS"
    THEN LET b == startPositionBroadcast(variant, timers, TRUE, socket, config, currentPosition)
         IN  [timers |-> b.timers, heartbeatInterval |-> heartbeatInterval,
              positionInterval |-> b.handle, sent |-> b.sent]
    ELSE LET b == startHeartbeat(timers, TRUE, socket, config)
         IN  [timers |-> b.timers, heartbeatInterval |-> b.handle,
              positionInterval |-> positionInterval, sent |-> b.sent]

\* The 'listening' event of socket s: the callback given to socket.bind.
\* A socket whose close is queued is closed right after the callback.
BindComplete(s) ==
    /\ sockets[s].st \in {"binding", "closing"}
    /\ LET bound == Collect([sockets EXCEPT ![s].st = IF @ = "binding" THEN "bound" ELSE "closed"],
                            socket)
       IN  IF socket = Nil
           THEN /\ sockets' = bound
                /\ Out("bind", "ignored", <<>>)
                /\ UNCHANGED <<isRunning, heartbeatInterval, positionInterval, timers, hist>>
           ELSE IF SetBroadcastThrows(bound)
           THEN /\ sockets' = Collect([bound EXCEPT ![s].prom = "settled"], socket)
                /\ Out("bind", "rejected", <<>>)
                /\ UNCHANGED <<isRunning, heartbeatInterval, positionInterval, timers, hist>>
           ELSE /\ FreeTimers(timers) # {}
                /\ LET b == BindStarts
                   IN  /\ isRunning' = TRUE
                       /\ timers' = b.timers
                       /\ heartbeatInterval' = b.heartbeatInterval
                       /\ positionInterval' = b.positionInterval
                       /\ Out("bind", "resolved", b.sent)
                /\ sockets' = Collect([bound EXCEPT ![s].prom = "settled"], socket)
                /\ hist' = [hist EXCEPT !.quiet = FALSE, !.stale = FALSE]
    /\ UNCHANGED <<variant, socket, config, currentPosition>>

\* The 'error' event of socket s: this.stop(); reject(err).  A socket that
\* fails to bind stays unbound, drops its queue and never reports
\* 'listening'; as this.socket of a running server it is still sent through
\* (each send binds it again) and may fail again.
SocketError(s) ==
    /\ \/ sockets[s].st \in {"binding", "closing", "bound"}
       \/ sockets[s].st = "unbound" /\ s = socket /\ isRunning
    /\ LET n == AfterStop
       IN  /\ isRunning' = n.isRunning
           /\ socket' = n.socket
           /\ heartbeatInterval' = n.heartbeatInterval
           /\ positionInterval' = n.positionInterval
           /\ timers' = n.timers
           /\ sockets' = Collect([n.sockets EXCEPT
                            ![s] = [st |-> IF @.st \in {"binding", "closing"} THEN "unbound" ELSE @.st,
                                    prom |-> "settled"]],
                                 n.socket)
    /\ hist' = HistAfterStop
    /\ Out("error", IF isRunning THEN "stopped" ELSE "noop", <<>>)
    /\ UNCHANGED <<variant, config, currentPosition>>

\* ------------------------------------------------------------------- timers

\* The callback of interval timer t: it reads the position and the config
\* as they are now.  Only a live timer calls back: clearInterval runs in the
\* job that calls it, and Node never runs the callback of a cleared interval,
\* due or not.
TickSends(t) ==
    IF timers[t].kind = "heartbeat"
    THEN sendHeartbeat(isRunning, socket, config)
    ELSE IF currentPosition # <<>>
    THEN sendPosition(variant, isRunning, socket, config, currentPosition[1])
    ELSE <<>>

Tick(t) ==
    /\ timers[t].kind # "none"
    /\ Out("tick", timers[t].kind, TickSends(t))
    /\ UNCHANGED <<variant, isRunning, socket, config, currentPosition, heartbeatInterval,
                   positionInterval, sockets, timers, hist>>

\* Mutant of SendComplete: a failed send stops the server.
SendComplete_StopsOnError(err) ==
    /\ sendPending
    /\ sendPending' = FALSE
    /\ lastSent' = <<>>
    /\ last' = [op |-> "sendDone", res |-> IF err THEN "error" ELSE "ok"]
    /\ LET n == IF err THEN AfterStop
                ELSE [isRunning |-> isRunning, socket |-> socket,
                      heartbeatInterval |-> heartbeatInterval,
                      positionInterval |-> positionInterval,
                      timers |-> timers, sockets |-> sockets]
       IN  /\ isRunning' = n.isRunning
           /\ socket' = n.socket
           /\ heartbeatInterval' = n.heartbeatInterval
           /\ positionInterval' = n.positionInterval
           /\ timers' = n.timers
           /\ sockets' = Collect(n.sockets, n.socket)
    /\ hist' = IF err THEN HistAfterStop ELSE hist
    /\ UNCHANGED <<variant, config, currentPosition, enc>>

\* The callback of socket.send: it logs, whatever the outcome.  sendPending
\* abstracts the number of outstanding callbacks to "none" or "some".
SendComplete(err) ==
    /\ sendPending
    /\ sendPending' = FALSE
    /\ lastSent' = <<>>
    /\ last' = [op |-> "sendDone", res |-> IF err THEN "error" ELSE "ok"]
    /\ UNCHANGED <<variant, isRunning, socket, config, currentPosition, heartbeatInterval,
                   positionInterval, sockets, timers, hist, enc>>

\* ------------------------------------------------------------ specification

\* A patch whose present fields all differ from the stored ones.  A field
\* that repeats the stored value merges to the same config, and so to the
\* same step, as the patch without that field: those patches are left out.
Effective(patch) ==
    /\ patch.port # <<config.port>>
    /\ patch.targetIP # <<config.targetIP>>
    /\ patch.updateRate # <<config.updateRate>>


Next ==
    \/ Start
    \/ Stop
    \/ \E p \in Positions : UpdatePosition(p)
    \/ \E patch \in Patches : Effective(patch) /\ UpdateConfig(patch)
    \/ \E s \in SocketIds : BindComplete(s)
    \/ \E s \in SocketIds : SocketError(s)
    \/ \E t \in TimerIds : Tick(t)
    \/ \E err \in BOOLEAN : SendComplete(err)

Spec == Init /\ [][Next]_vars

\* The event loop delivers the outcome of every bind that is under way: the
\* 'listening' callback or the 'error' event.
BindOutcome(s) ==
    \/ BindComplete(s)
    \/ sockets[s].st \in {"binding", "closing"} /\ SocketError(s)

FairSpec == Spec /\ \A s \in SocketIds : WF_vars(BindOutcome(s))


\* ------------------------------------------------------------ GDL-90 encoder

\* const FLAG_BYTE = 0x7e; const ESCAPE_BYTE = 0x7d;
FLAG_BYTE == 126
ESCAPE_BYTE == 125

\* Bitwise exclusive or of two non-negative integers (JavaScript's ^).
RECURSIVE BitXor(_, _)
BitXor(a, b) ==
    IF a = 0 THEN b
    ELSE IF b = 0 THEN a
    ELSE ((a + b) % 2) + 2 * BitXor(a \div 2, b \div 2)

\* crc << 1, kept to the low 16 bits.  JavaScript shifts on 32 bits, but the
\* loop only shifts left, tests bit 15 and XORs values below 2^16, so no bit
\* above bit 15 ever reaches a lower one, and the result is crc & 0xffff.
ShiftLeft1(x) == (x * 2) % 65536

\* One turn of the inner loop:
\* if (crc & 0x8000) crc = (crc << 1) ^ 0x1021; else crc = crc << 1;
CRCStep(crc) ==
    IF (crc \div 32768) % 2 = 1
    THEN BitXor(ShiftLeft1(crc), 4129)
    ELSE ShiftLeft1(crc)

RECURSIVE CRCSteps(_, _)
CRCSteps(crc, j) == IF j = 0 THEN crc ELSE CRCSteps(CRCStep(crc), j - 1)

\* calculateCRC(data): crc starts at 0; for each byte crc ^= data[i], then
\* the eight turns of the inner loop; return crc & 0xffff.  (The test of
\* crc \in Nat has TLC evaluate the value of the turn before first, which
\* keeps its evaluation shallow on long messages.)
calculateCRC(data) ==
    LET crcAfter[i \in 0..Len(data)] ==
            IF i = 0
            THEN 0
            ELSE LET crc == crcAfter[i - 1]
                 IN  IF crc \in Nat THEN CRCSteps(BitXor(crc, data[i]), 8) ELSE crc
    IN  crcAfter[Len(data)] % 65536

\* Mutant of escapeData: only the escape byte is escaped.
RECURSIVE escapeData_FlagUnescaped(_)
escapeData_FlagUnescaped(data) ==
    IF data = <<>>
    THEN <<>>
    ELSE (IF Head(data) = ESCAPE_BYTE
          THEN <<ESCAPE_BYTE, BitXor(Head(data), 32)>>
          ELSE <<Head(data)>>) \o escapeData_FlagUnescaped(Tail(data))

\* Mutant of escapeData: the escaped byte is pushed as it is.
RECURSIVE escapeData_NoXor(_)
escapeData_NoXor(data) ==
    IF data = <<>>
    THEN <<>>
    ELSE (IF Head(data) = FLAG_BYTE \/ Head(data) = ESCAPE_BYTE
          THEN <<ESCAPE_BYTE, Head(data)>>
          ELSE <<Head(data)>>) \o escapeData_NoXor(Tail(data))

\* escapeData(data): a flag or escape byte becomes ESCAPE_BYTE, byte ^ 0x20.
RECURSIVE escapeData(_)
escapeData(data) ==
    IF data = <<>>
    THEN <<>>
    ELSE (IF Head(data) = FLAG_BYTE \/ Head(data) = ESCAPE_BYTE
          THEN <<ESCAPE_BYTE, BitXor(Head(data), 32)>>
          ELSE <<Head(data)>>) \o escapeData(Tail(data))

\* message = payload, (crc >> 8) & 0xff, crc & 0xff
AppendCRC(payload, crc) == payload \o <<(crc \div 256) % 256, crc % 256>>

\* framed = FLAG_BYTE, escaped, FLAG_BYTE
Frame(escaped) == <<FLAG_BYTE>> \o escaped \o <<FLAG_BYTE>>

\* The bytes payloads are made of: the flag and escape bytes, what they are
\* escaped to, 0x20, the heartbeat's status byte 0x81, and 0x00, 0x01, 0xff.
PayloadBytes == {0, 1, 32, 93, 94, ESCAPE_BYTE, FLAG_BYTE, 129, 255}

RECURSIVE SeqsUpTo(_, _)
SeqsUpTo(S, n) ==
    IF n = 0
    THEN {<<>>}
    ELSE SeqsUpTo(S, n - 1) \cup {Append(q, b) : q \in SeqsUpTo(S, n - 1), b \in S}

Payloads == SeqsUpTo(PayloadBytes, MaxPayloadLen)

\* A payload is at hand; nothing is computed yet.
EncInit ==
    /\ InitServer
    /\ variant = "GDL90"
    /\ enc \in {[EncIdle EXCEPT !.pc = "payload", !.payload = p] : p \in Payloads}

\* const crc = calculateCRC(payload); message = payload and the CRC, high
\* byte first.
ComputeCRC ==
    /\ enc.pc = "payload"
    /\ LET crc == calculateCRC(enc.payload)
       IN  enc' = [enc EXCEPT !.pc = "message", !.crc = crc,
                              !.message = AppendCRC(enc.payload, crc)]
    /\ UNCHANGED server

\* const escaped = escapeData(message);
Escape ==
    /\ enc.pc = "message"
    /\ enc' = [enc EXCEPT !.pc = "escaped", !.escaped = escapeData(enc.message)]
    /\ UNCHANGED server

\* framed[0] = FLAG_BYTE; escaped.copy(framed, 1); framed[framed.length - 1] = FLAG_BYTE;
FrameMessage ==
    /\ enc.pc = "escaped"
    /\ enc' = [enc EXCEPT !.pc = "framed", !.framed = Frame(enc.escaped)]
    /\ UNCHANGED server

EncNext ==
    \/ ComputeCRC
    \/ Escape
    \/ FrameMessage

EncSpec == EncInit /\ [][EncNext]_vars

\* ------------------------------------------------------- message creators

Max(a, b) == IF a >= b THEN a ELSE b
Min(a, b) == IF a <= b THEN a ELSE b

\* Math.round(n / d) for integers n and d > 0: the nearest integer, a half
\* rounded up.
RoundDiv(n, d) == (2 * n + d) \div (2 * d)

\* Mutant of encodeAltitude: no offset of 1000 ft.
encodeAltitude_NoOffset(altitudeFeet) ==
    Max(0, Min(4094, RoundDiv(altitudeFeet, 25)))

\* encodeAltitude: Math.max(0, Math.min(0xffe, Math.round((altitudeFeet + 1000) / 25)))
encodeAltitude(altitudeFeet) ==
    Max(0, Min(4094, RoundDiv(altitudeFeet + 1000, 25)))

\* encodeVelocity: Math.max(0, Math.min(0xffe, Math.round(speedKnots)))
encodeVelocity(speedKnots) == Max(0, Min(4094, RoundDiv(speedKnots, 1)))

\* encodeVerticalVelocity: encoded = Math.round(vsFpm / 64); a negative
\* value gives (0x800 | (Math.abs(encoded) & 0x7ff)) & 0xfff, any other
\* Math.max(0, Math.min(0x7ff, encoded)).
encodeVerticalVelocity(vsFpm) ==
    LET encoded == RoundDiv(vsFpm, 64)
    IN  IF encoded < 0
        THEN 2048 + ((-encoded) % 2048)
        ELSE Max(0, Min(2047, encoded))

\* encodeTrackHeading: Math.round((heading / 1.4) * (256 / 360)) & 0xff;
\* (h / 1.4) * (256 / 360) is h * 32 / 63.
encodeTrackHeading(heading) == RoundDiv(heading * 32, 63) % 256

\* Math.round((degrees / 180) * Math.pow(2, 23)) for degrees given in 1e-4
\* degree: the exact value is x * 131072 / 28125, taken apart so that every
\* product stays below 2^31.  (28125 is odd, so the exact value is never
\* nearer than 1/56250 to a half and the double the code computes rounds to
\* the same integer.)
Semicircles(x) ==
    LET q1 == x \div 28125
        r1 == x % 28125
        q2 == (r1 * 512) \div 28125
        r2 == (r1 * 512) % 28125
    IN  q1 * 131072 + q2 * 256 + RoundDiv(r2 * 256, 28125)

\* Mutant of WriteIntBE3: low byte first.
WriteIntBE3_LittleEndian(value) ==
    IF value < -8388608 \/ value > 8388607
    THEN [thrown |-> TRUE, bytes |-> <<>>]
    ELSE LET u == value % 16777216
         IN  [thrown |-> FALSE,
              bytes |-> <<u % 256, (u \div 256) % 256, u \div 65536>>]

\* buffer.writeIntBE(value, 0, 3): a value outside -2^23 .. 2^23 - 1 throws
\* a RangeError; any other is written in two's complement, high byte first.
WriteIntBE3(value) ==
    IF value < -8388608 \/ value > 8388607
    THEN [thrown |-> TRUE, bytes |-> <<>>]
    ELSE LET u == value % 16777216
         IN  [thrown |-> FALSE,
              bytes |-> <<u \div 65536, (u \div 256) % 256, u % 256>>]

encodeLatitude(lat) == WriteIntBE3(Semicircles(lat))

encodeLongitude(lon) == WriteIntBE3(Semicircles(lon))

\* Mutant of HeartbeatPayload: the seconds are packed in 16 bits, bit 16 lost.
HeartbeatPayload_SixteenBits(hours, minutes, seconds) ==
    LET secondsSinceMidnight == hours * 3600 + minutes * 60 + seconds
    IN  <<0, 129, 0, 0,
          (secondsSinceMidnight \div 256) % 256,
          secondsSinceMidnight % 256,
          0>>

\* createHeartbeatMessage, payload: the clock is read as getUTCHours(),
\* getUTCMinutes() and getUTCSeconds().
HeartbeatPayload(hours, minutes, seconds) ==
    LET secondsSinceMidnight == hours * 3600 + minutes * 60 + seconds
    IN  <<0, 129, 0,
          (secondsSinceMidnight \div 65536) % 2,
          (secondsSinceMidnight \div 256) % 256,
          secondsSinceMidnight % 256,
          0>>

\* 'N12345  ' as character codes.
CallSign == <<78, 49, 50, 51, 52, 53, 32, 32>>

\* createOwnshipReport, the bytes written with payload[offset++] in the
\* order of the code, for a latitude and a longitude that writeIntBE took.
OwnshipWrites(position) ==
    LET altEncoded == encodeAltitude(position.altitude)
        velEncoded == encodeVelocity(position.groundSpeed)
        vsEncoded == encodeVerticalVelocity(position.verticalSpeed)
    IN  <<10, 0, 0, 171, 205, 239>>
        \o encodeLatitude(position.latitude).bytes
        \o encodeLongitude(position.longitude).bytes
        \o <<(altEncoded \div 16) % 256,
              (altEncoded % 16) * 16 + 11,
              168,
              (velEncoded \div 16) % 256,
              (velEncoded % 16) * 16 + ((vsEncoded \div 256) % 16),
              vsEncoded % 256,
              encodeTrackHeading(position.heading),
              1>>
        \o CallSign
        \o <<0>>

\* createOwnshipReport throws what encodeLatitude or encodeLongitude throws.
OwnshipThrows(position) ==
    \/ encodeLatitude(position.latitude).thrown
    \/ encodeLongitude(position.longitude).thrown

\* The payload is Buffer.alloc(28): a write at an index past its end is
\* dropped.
OwnshipPayload(position) ==
    LET writes == OwnshipWrites(position)
    IN  SubSeq(writes, 1, Min(28, Len(writes)))

\* createGeometricAltitude, payload.
GeoAltPayload(altitudeFeet) ==
    LET altEncoded == RoundDiv(altitudeFeet, 5)
    IN  <<11, (altEncoded \div 256) % 256, altEncoded % 256, 0, 0>>

\* ------------------------------------------------------------ XGPS encoder

\* config.simulatorName ?? 'FlightSim'
SimulatorName == "FlightSim"

\* The last k decimal digits of n, leading zeros kept.
RECURSIVE Digits(_, _)
Digits(n, k) == IF k = 0 THEN "" ELSE Digits(n \div 10, k - 1) \o ToString(n % 10)

RECURSIVE Pow10(_)
Pow10(k) == IF k = 0 THEN 1 ELSE 10 * Pow10(k - 1)

\* Number.prototype.toFixed(digits) of the number num / den (den > 0): a
\* negative number gives "-" and the text of its magnitude; the magnitude is
\* rounded to the nearest multiple of 10^-digits, the larger one on a tie.
\* The division is taken apart to keep the products below 2^31.
ToFixed(num, den, digits) ==
    LET mag == IF num < 0 THEN -num ELSE num
        pow == Pow10(digits)
        n == (mag \div den) * pow + RoundDiv((mag % den) * pow, den)
    IN  (IF num < 0 THEN "-" ELSE "")
        \o ToString(n \div pow) \o "." \o Digits(n % pow, digits)

\* toFixed(8) of a coordinate held in 1e-4 degree: the last four decimals
\* of a multiple of 1e-4 are zeros.
DegreesToFixed8(x) == ToFixed(x, 10000, 4) \o "0000"

\* feetToMeters(feet).toFixed(1): feet * 0.3048 is feet * 381 / 1250.
MetersToFixed1(feet) == ToFixed(feet * 381, 1250, 1)

\* knotsToMetersPerSecond(knots).toFixed(1): knots * 0.514444 is
\* knots * 128611 / 250000.
MpsToFixed1(knots) == ToFixed(knots * 128611, 250000, 1)

\* Mutant of createXGPSMessage: latitude before longitude.
createXGPSMessage_LatitudeFirst(position, simulatorName) ==
    "XGPS" \o simulatorName
    \o "," \o DegreesToFixed8(position.latitude)
    \o "," \o DegreesToFixed8(position.longitude)
    \o "," \o MetersToFixed1(position.altitude)
    \o "," \o ToFixed(position.heading, 1, 2)
    \o "," \o MpsToFixed1(position.groundSpeed)

\* createXGPSMessage: the template string of the code.
createXGPSMessage(position, simulatorName) ==
    "XGPS" \o simulatorName
    \o "," \o DegreesToFixed8(position.longitude)
    \o "," \o DegreesToFixed8(position.latitude)
    \o "," \o MetersToFixed1(position.altitude)
    \o "," \o ToFixed(position.heading, 1, 2)
    \o "," \o MpsToFixed1(position.groundSpeed)

\* ------------------------------------------ the creators, input to datagram

\* Values of one field of a position handed to a creator; the other fields
\* are those of the default position.
EncLatitudes == {0, 900000, -900000, -985795}
EncLongitudes == {0, 900000, -900000, 398283, 1799999, 1800000, -1800000}
EncAltitudes == {-163845, -2000, -1000, 0, 100000, 101337, 101338, 163837,
                 163838, 200000}
EncGroundSpeeds == {-5, 120, 4094, 5000}
EncVerticalSpeeds == {-200000, -131072, -131008, -640, -33, -32, 31, 32, 640,
                      131008, 131072, 200000}
EncHeadings == {90, 359}

EncPositions ==
    Positions
    \cup {[DefaultPosition EXCEPT !.latitude = v] : v \in EncLatitudes}
    \cup {[DefaultPosition EXCEPT !.longitude = v] : v \in EncLongitudes}
    \cup {[DefaultPosition EXCEPT !.altitude = v] : v \in EncAltitudes}
    \cup {[DefaultPosition EXCEPT !.groundSpeed = v] : v \in EncGroundSpeeds}
    \cup {[DefaultPosition EXCEPT !.verticalSpeed = v] : v \in EncVerticalSpeeds}
    \cup {[DefaultPosition EXCEPT !.heading = v] : v \in EncHeadings}

\* What a creator is called with: the heartbeat reads the UTC clock, the
\* others take a position.
Inputs ==
    {[kind |-> "heartbeat", hours |-> h, minutes |-> m, seconds |-> sec,
      position |-> DefaultPosition] :
        h \in 0..23, m \in 0..59, sec \in 0..59}
    \cup {[NoInput EXCEPT !.kind = k, !.position = p] :
            k \in {"ownship", "geoalt", "xgps"}, p \in EncPositions}

MsgInit ==
    /\ InitServer
    /\ \E i \in Inputs :
          /\ variant = IF i.kind = "xgps" THEN "XGPS" ELSE "GDL90"
          /\ enc = [EncIdle EXCEPT !.pc = "input", !.input = i]

\* createHeartbeatMessage, to the payload.
CreateHeartbeat ==
    /\ enc.pc = "input"
    /\ enc.input.kind = "heartbeat"
    /\ enc' = [enc EXCEPT !.pc = "payload",
                           !.payload = HeartbeatPayload(enc.input.hours,
                                                        enc.input.minutes,
                                                        enc.input.seconds)]
    /\ UNCHANGED server

\* createOwnshipReport, to the payload or to the RangeError of writeIntBE.
CreateOwnship ==
    /\ enc.pc = "input"
    /\ enc.input.kind = "ownship"
    /\ IF OwnshipThrows(enc.input.position)
       THEN enc' = [enc EXCEPT !.pc = "thrown"]
       ELSE enc' = [enc EXCEPT !.pc = "payload",
                               !.payload = OwnshipPayload(enc.input.position)]
    /\ UNCHANGED server

\* createGeometricAltitude(position.altitude), to the payload.
CreateGeoAlt ==
    /\ enc.pc = "input"
    /\ enc.input.kind = "geoalt"
    /\ enc' = [enc EXCEPT !.pc = "payload",
                           !.payload = GeoAltPayload(enc.input.position.altitude)]
    /\ UNCHANGED server

\* createXGPSMessage(position, this.config.simulatorName).
CreateXGPS ==
    /\ enc.pc = "input"
    /\ enc.input.kind = "xgps"
    /\ enc' = [enc EXCEPT !.pc = "text",
                           !.text = createXGPSMessage(enc.input.position,
                                                      SimulatorName)]
    /\ UNCHANGED server

MsgNext ==
    \/ CreateHeartbeat
    \/ CreateOwnship
    \/ CreateGeoAlt
    \/ CreateXGPS
    \/ ComputeCRC
    \/ Escape
    \/ FrameMessage

MsgSpec == MsgInit /\ [][MsgNext]_vars

\* -------------------------------------------------------------- control API

\* The routes of /api/gps, each request one job on the one server instance
\* getGPSServerInstance() returns.

\* A request rejected before the server is touched: res.status(400).json(..).
Rejected(op, error) ==
    /\ Out(op, error, <<>>)
    /\ UNCHANGED <<variant, isRunning, socket, config, currentPosition,
                   heartbeatInterval, positionInterval, sockets, timers, hist>>

\* POST /start: 400 when the server runs, else await server.start().
RouteStart ==
    IF isRunning
    THEN Rejected("POST /start", "400: Server is already running")
    ELSE Start

\* POST /stop: 400 when the server does not run, else server.stop().
RouteStop ==
    IF ~isRunning
    THEN Rejected("POST /stop", "400: Server is not running")
    ELSE Stop

\* Bodies of POST /position: typed is FALSE when one of latitude, longitude,
\* altitude, heading and groundSpeed is not a number; verticalSpeed may be
\* absent.
PositionBody(p, vs) ==
    [typed |-> TRUE, latitude |-> p.latitude, longitude |-> p.longitude,
     altitude |-> p.altitude, heading |-> p.heading, groundSpeed |-> p.groundSpeed,
     verticalSpeed |-> vs]

PositionBodies ==
    {PositionBody(DefaultPosition, <<>>),
     PositionBody(OtherPosition, <<OtherPosition.verticalSpeed>>),
     [PositionBody(OtherPosition, <<>>) EXCEPT !.typed = FALSE],
     [PositionBody(OtherPosition, <<>>) EXCEPT !.latitude = 900001],
     [PositionBody(OtherPosition, <<>>) EXCEPT !.latitude = -900001],
     [PositionBody(OtherPosition, <<>>) EXCEPT !.longitude = 1800001],
     [PositionBody(OtherPosition, <<>>) EXCEPT !.longitude = -1800001],
     [PositionBody(OtherPosition, <<>>) EXCEPT !.heading = 360],
     [PositionBody(OtherPosition, <<>>) EXCEPT !.heading = -1]}

\* Mutant of PositionError: heading 360 passes.
PositionError_HeadingClosed(body) ==
    IF ~isRunning THEN "400: Server is not running. Start the server first."
    ELSE IF ~body.typed THEN "400: Invalid position data"
    ELSE IF body.latitude < -900000 \/ body.latitude > 900000
    THEN "400: Latitude must be between -90 and 90"
    ELSE IF body.longitude < -1800000 \/ body.longitude > 1800000
    THEN "400: Longitude must be between -180 and 180"
    ELSE IF body.heading < 0 \/ body.heading > 360
    THEN "400: Heading must be between 0 and 359"
    ELSE ""

\* POST /position, the checks in the order of the code: the error answered,
\* "" when the body passes.
PositionError(body) ==
    IF ~isRunning THEN "400: Server is not running. Start the server first."
    ELSE IF ~body.typed THEN "400: Invalid position data"
    ELSE IF body.latitude < -900000 \/ body.latitude > 900000
    THEN "400: Latitude must be between -90 and 90"
    ELSE IF body.longitude < -1800000 \/ body.longitude > 1800000
    THEN "400: Longitude must be between -180 and 180"
    ELSE IF body.heading < 0 \/ body.heading >= 360
    THEN "400: Heading must be between 0 and 359"
    ELSE ""

\* { ...position, verticalSpeed: position.verticalSpeed ?? 0 }
completePosition(body) ==
    [latitude |-> body.latitude, longitude |-> body.longitude,
     altitude |-> body.altitude, heading |-> body.heading,
     groundSpeed |-> body.groundSpeed,
     verticalSpeed |-> IF body.verticalSpeed = <<>> THEN 0 ELSE body.verticalSpeed[1]]

RoutePosition(body) ==
    IF PositionError(body) # ""
    THEN Rejected("POST /position", PositionError(body))
    ELSE UpdatePosition(completePosition(body))

\* Bodies of PUT /config: each of port, targetIP and updateRate absent or
\* present.  Every patch of Patches, the empty body among them, and for
\* each field a value the route refuses: port 0, an address that does not
\* match the pattern, rate 11; each alone and beside valid values of the
\* other two fields.
ConfigBodies ==
    Patches
    \cup {[port |-> <<0>>, targetIP |-> a, updateRate |-> r] :
            a \in {<<>>, <<"192.168.1.100">>}, r \in {<<>>, <<5>>}}
    \cup {[port |-> q, targetIP |-> <<"foreflight.local">>, updateRate |-> r] :
            q \in {<<>>, <<DefaultPortXGPS>>}, r \in {<<>>, <<5>>}}
    \cup {[port |-> q, targetIP |-> a, updateRate |-> <<11>>] :
            q \in {<<>>, <<DefaultPortXGPS>>}, a \in {<<>>, <<"192.168.1.100">>}}

\* ipPattern.test(targetIP) for /^(\d{1,3}\.){3}\d{1,3}$/, on the addresses
\* of ConfigBodies.
ipPattern(targetIP) == targetIP = "192.168.1.100"

\* PUT /config, the checks made on the body alone: the error answered, ""
\* when the body passes.
ConfigError(body) ==
    IF body.port # <<>> /\ (body.port[1] < 1 \/ body.port[1] > 65535)
    THEN "400: Port must be a number between 1 and 65535"
    ELSE IF body.targetIP # <<>> /\ Len(body.targetIP[1]) > 0 /\ ~ipPattern(body.targetIP[1])
    THEN "400: Invalid IP address format. Expected format: 192.168.1.100"
    ELSE IF body.updateRate # <<>> /\ (body.updateRate[1] < 1 \/ body.updateRate[1] > 10)
    THEN "400: Update rate must be between 1 and 10 Hz"
    ELSE IF body.port = <<>> /\ body.targetIP = <<>> /\ body.updateRate = <<>>
    THEN "400: No valid configuration provided"
    ELSE ""

\* Mutant of PortWhileRunning: the port may change at any time.
PortWhileRunning_Never(updates) == FALSE

\* if (server.getIsRunning() && updates.port !== undefined)
PortWhileRunning(updates) == isRunning /\ updates.port # <<>>

\* PUT /config: a body that passes is handed to updateConfig as it is.
RouteConfig(body) ==
    IF ConfigError(body) # ""
    THEN Rejected("PUT /config", ConfigError(body))
    ELSE IF PortWhileRunning(body)
    THEN Rejected("PUT /config", "400: Cannot change port while server is running. Stop the server first.")
    ELSE UpdateConfig(body)

ApiNext ==
    \/ RouteStart
    \/ RouteStop
    \/ \E body \in PositionBodies : RoutePosition(body)
    \/ \E body \in ConfigBodies : RouteConfig(body)
    \/ \E s \in SocketIds : BindComplete(s)
    \/ \E s \in SocketIds : SocketError(s)
    \/ \E t \in TimerIds : Tick(t)
    \/ \E err \in BOOLEAN : SendComplete(err)

ApiSpec == Init /\ [][ApiNext]_vars

\* ------------------------------------------------------------------- claims

\* The fields the state of the broadcaster consists of, but for the position.
lifecycle == <<isRunning, socket, sockets, timers, heartbeatInterval, positionInterval, config>>

\* The message classes of the datagrams the last job submitted.
ClassCount(c) == Cardinality({i \in DOMAIN lastSent : lastSent[i].cls = c})

\* The fields of position p a datagram of class c is encoded from.
FieldsOf(c, p) ==
    IF c = "ownship" THEN OwnshipFields(p)
    ELSE IF c = "geoalt" THEN GeoAltFields(p)
    ELSE IF c = "xgps" THEN XGPSFields(p)
    ELSE <<>>

C2_StopCancelsEveryTimer == (last.op = "stop" /\ last.res = "stopped") => LiveTimers = {}

\* C3: a start() call that follows an accepted start() with no stop() between
\* them fails with the already-running error and creates no socket and no
\* timer, also when the first call's bind has not completed.
C3_SecondStartFails ==
    [][(hist.startOpen /\ last'.op = "start")
        => (last'.res = "AlreadyRunning" /\ sockets' = sockets /\ timers' = timers)]_vars

\* C4: start() on a stopped server whose stored destination address is empty
\* fails with the invalid-configuration error, and the server is as before:
\* stopped, the same socket field and sockets, the same timers, the same
\* config and position, and no datagram submitted.
C4_EmptyAddressRejected ==
    [][(last'.op = "start" /\ ~isRunning /\ config.targetIP = "")
        => /\ last'.res = "InvalidConfiguration"
           /\ isRunning' = FALSE
           /\ lastSent' = <<>>
           /\ UNCHANGED <<lifecycle, currentPosition>>]_vars

\* start() was refused for the missing address.
C4_Witness == last.op = "start" /\ last.res = "InvalidConfiguration" /\ config.targetIP = ""

\* C5: stop() on a stopped server changes nothing and raises nothing (it never
\* closes a socket that is already closed), and every stop() leaves the server
\* stopped, so that a second stop() is that no-op.
C5_StopIdempotent ==
    [][(last'.op = "stop")
        => /\ isRunning' = FALSE
           /\ last'.res \in {"noop", "stopped"}
           /\ (isRunning /\ socket # Nil) => sockets[socket].st # "closed"
           /\ ~isRunning => /\ last'.res = "noop"
                            /\ lastSent' = <<>>
                            /\ UNCHANGED <<lifecycle, currentPosition>>]_vars

\* A second stop() after one that took the server down, with a start() pending.
C5_Witness == last.op = "stop" /\ last.res = "noop" /\ hist.wasStopped /\ socket # Nil

\* The message classes a round consists of, given what is stored.
ExpectedRound ==
    IF variant = "XGPS"
    THEN IF currentPosition # <<>> THEN {"xgps"} ELSE {}
    ELSE {"heartbeat"} \cup (IF currentPosition # <<>> THEN {"ownship", "geoalt"} ELSE {})

\* C6: the job in which start() resolves submits one datagram of every
\* message class of the variant for which data is stored.
C6_RoundOnStart ==
    (last.op = "bind" /\ last.res = "resolved")
        => \A c \in ExpectedRound : ClassCount(c) = 1

\* C7: when start() resolves after a stop() with a position stored, the
\* timer of every message class is armed: the position timer in both
\* variants, the heartbeat timer too in GDL-90.
C7_RestartArmsTimers ==
    (last.op = "bind" /\ last.res = "resolved" /\ hist.wasStopped /\ currentPosition # <<>>)
        => /\ positionInterval # Nil
           /\ variant = "GDL90" => heartbeatInterval # Nil

\* C8: every datagram a timer callback submits is addressed to the port and
\* the address stored in the config when the callback runs and, but for the
\* heartbeat, carries the fields of the position stored at that moment.
C8_TickUsesCurrent ==
    last.op = "tick"
        => \A i \in DOMAIN lastSent :
              /\ lastSent[i].port = config.port
              /\ lastSent[i].targetIP = config.targetIP
              /\ lastSent[i].cls # "heartbeat"
                    => /\ currentPosition # <<>>
                       /\ lastSent[i].data = FieldsOf(lastSent[i].cls, currentPosition[1])

\* A position tick submitted datagrams after the position or the destination
\* was replaced and no timer was armed since.
C8_Witness == last.op = "tick" /\ last.res = "position" /\ lastSent # <<>> /\ hist.stale

\* C9: updatePosition with the position interval armed stores the position
\* and nothing else: no datagram, no timer armed or cleared, the same config,
\* socket and running flag.
C9_UpdatePositionOnlyStores ==
    [][(last'.op = "updatePosition" /\ positionInterval # Nil)
        => /\ currentPosition' \in {<<p>> : p \in Positions}
           /\ lastSent' = <<>>
           /\ UNCHANGED lifecycle]_vars

\* updatePosition replaced the position while the position interval was armed.
C9_Witness ==
    /\ last.op = "updatePosition" /\ last.res = "stored"
    /\ isRunning /\ positionInterval # Nil
    /\ currentPosition = <<OtherPosition>>

\* C10: GDL-90 updatePosition on a running server with no position interval
\* arms exactly one timer, a position timer of period 1000/updateRate ms, and
\* makes it the position interval; on a stopped server it stores the position
\* and arms nothing.
C10_FirstPositionArmsTimer ==
    [][(variant = "GDL90" /\ last'.op = "updatePosition")
        => /\ (isRunning /\ positionInterval = Nil)
                => \E t \in TimerIds :
                      /\ timers[t].kind = "none"
                      /\ timers' = [timers EXCEPT ![t] =
                                       [kind |-> "position", period |-> 1000 \div config.updateRate]]
                      /\ positionInterval' = t
           /\ ~isRunning
                => /\ timers' = timers
                   /\ positionInterval' = positionInterval
                   /\ currentPosition' # <<>>]_vars

\* The first position of a running GDL-90 server armed a 200 ms timer.
C10_Witness ==
    /\ variant = "GDL90" /\ last.op = "updatePosition" /\ last.res = "armed"
    /\ config.updateRate = 5
    /\ timers[positionInterval] = [kind |-> "position", period |-> 200]

C12_HeartbeatFixed ==
    [][variant = "GDL90"
        => /\ isRunning'
                => /\ heartbeatInterval' # Nil
                   /\ timers'[heartbeatInterval'] = [kind |-> "heartbeat", period |-> 1000]
           /\ last'.op \in {"updateConfig", "updatePosition"}
                => /\ heartbeatInterval' = heartbeatInterval
                   /\ \A t \in TimerIds :
                         (timers[t].kind = "heartbeat" \/ timers'[t].kind = "heartbeat")
                            => timers'[t] = timers[t]]_vars

\* updateConfig re-armed the position timer of a running GDL-90 server at
\* 5 Hz and the heartbeat interval is the 1000 ms one.
C12_Witness ==
    /\ variant = "GDL90" /\ isRunning
    /\ last.op = "updateConfig" /\ last.res = "rearmed" /\ config.updateRate = 5
    /\ timers[positionInterval].period = 200
    /\ timers[heartbeatInterval] = [kind |-> "heartbeat", period |-> 1000]

\* C13: the callback of a send that failed leaves the running flag, the
\* socket, the sockets, every timer, both handles, the config and the
\* position as they were, and every live timer of a running server still
\* submits datagrams on its next tick (a position timer when a position is
\* stored).
C13_SendFailureChangesNothing ==
    [][(last'.op = "sendDone" /\ last'.res = "error")
        => /\ UNCHANGED <<lifecycle, currentPosition>>
           /\ \A t \in TimerIds :
                 (isRunning' /\ timers'[t].kind # "none"
                    /\ (timers'[t].kind = "heartbeat" \/ currentPosition' # <<>>))
                    => (TickSends(t) # <<>>)']_vars

\* A send failed on a running server with a live timer.
C13_Witness ==
    /\ last.op = "sendDone" /\ last.res = "error"
    /\ isRunning /\ positionInterval # Nil /\ currentPosition # <<>>

\* C14: the datagrams one job submits are encoded from one position of those
\* handed to updatePosition (or the default): each carries all the fields its
\* class is encoded from, of that one position, and the ownship report and
\* the geometric altitude of one GDL-90 round are of the same position.
C14_WholeSnapshot ==
    \E p \in Positions :
        \A i \in DOMAIN lastSent :
            lastSent[i].cls # "heartbeat" => lastSent[i].data = FieldsOf(lastSent[i].cls, p)

\* A GDL-90 position tick submitted its two datagrams after updatePosition
\* had replaced the position the timer was armed with.
C14_Witness ==
    /\ variant = "GDL90" /\ last.op = "tick" /\ last.res = "position"
    /\ Len(lastSent) = 2 /\ hist.stale
    /\ currentPosition = <<OtherPosition>>
    /\ config.port = DefaultPortGDL90

\* C15: the server goes from running to stopped only in a job that is a
\* call of stop() by the owner.
C15_OnlyStopStops == [][(isRunning /\ ~isRunning') => last'.op = "stop"]_vars

\* C16: the promise of every start() that was accepted is eventually
\* resolved or rejected.
C16_StartSettles ==
    \A s \in SocketIds : (sockets[s].prom = "pending") ~> (sockets[s].prom # "pending")

\* The bytes of a frame between its first and its last byte.
Body(framed) == SubSeq(framed, 2, Len(framed) - 1)

\* Byte-stuffing reversed: ESCAPE_BYTE, x stands for x ^ 0x20.
RECURSIVE Unescape(_)
Unescape(bytes) ==
    IF bytes = <<>>
    THEN <<>>
    ELSE IF Head(bytes) = ESCAPE_BYTE /\ Len(bytes) >= 2
    THEN <<BitXor(bytes[2], 32)>> \o Unescape(Tail(Tail(bytes)))
    ELSE <<Head(bytes)>> \o Unescape(Tail(bytes))

\* The flag and escape bytes among the bytes of a sequence.
SpecialAt(bytes) == {i \in DOMAIN bytes : bytes[i] \in {FLAG_BYTE, ESCAPE_BYTE}}

\* C17: a frame starts and ends with the flag byte, holds no flag byte
\* between them, and every escape byte between them is followed, still
\* before the closing flag, by 0x5E or 0x5D: a flag or escape byte XOR 0x20.
C17_FrameWellFormed ==
    enc.pc = "framed"
        => LET f == enc.framed
               n == Len(f)
           IN  /\ n >= 2
               /\ f[1] = FLAG_BYTE
               /\ f[n] = FLAG_BYTE
               /\ \A i \in 2..(n - 1) :
                     /\ f[i] # FLAG_BYTE
                     /\ f[i] = ESCAPE_BYTE
                           => /\ i + 1 <= n - 1
                              /\ f[i + 1] \in {BitXor(FLAG_BYTE, 32), BitXor(ESCAPE_BYTE, 32)}

\* A frame was built of a payload that holds a flag byte and an escape byte.
C17_Witness ==
    /\ enc.pc = "framed"
    /\ enc.payload = <<FLAG_BYTE, ESCAPE_BYTE, 1>>

\* C18: taking the two flag bytes off a frame and reversing the stuffing
\* gives the message the frame was built of, the payload and its two CRC
\* bytes; each flag or escape byte of the message, CRC bytes included, takes
\* two bytes of the frame.
C18_FramingRoundTrip ==
    enc.pc = "framed"
        => /\ Len(enc.framed) >= 2
           /\ Unescape(Body(enc.framed)) = enc.message
           /\ enc.message = AppendCRC(enc.payload, enc.crc)
           /\ Len(Body(enc.framed)) = Len(enc.message) + Cardinality(SpecialAt(enc.message))

\* A frame was built of a message whose high CRC byte is the flag byte.
C18_Witness ==
    /\ enc.pc = "framed"
    /\ enc.message[Len(enc.message) - 1] = FLAG_BYTE
    /\ enc.payload # <<>> /\ enc.payload[Len(enc.payload)] # FLAG_BYTE

\* C19: calculateCRC over a payload followed by its CRC, high byte first,
\* is the same value for every payload: the one it is for the empty payload.
C19_CRCResidueFixed ==
    enc.pc \in {"message", "escaped", "framed"}
        => calculateCRC(enc.message) = calculateCRC(AppendCRC(<<>>, calculateCRC(<<>>)))

\* The reference CRC-CCITT: polynomial 0x1021, initial value 0, each byte
\* XORed into the top 8 bits of a 16-bit accumulator, then 8 shift steps,
\* most significant bit first.
ReferenceStep(crc) ==
    IF crc >= 32768
    THEN BitXor((crc * 2) % 65536, 4129)
    ELSE (crc * 2) % 65536

RECURSIVE ReferenceSteps(_, _)
ReferenceSteps(crc, j) == IF j = 0 THEN crc ELSE ReferenceSteps(ReferenceStep(crc), j - 1)

ReferenceCRC(data) ==
    LET crcAfter[i \in 0..Len(data)] ==
            IF i = 0
            THEN 0
            ELSE LET crc == crcAfter[i - 1]
                 IN  IF crc \in Nat THEN ReferenceSteps(BitXor(crc, data[i] * 256), 8) ELSE crc
    IN  crcAfter[Len(data)]

\* C20: calculateCRC returns the value of the reference CRC-CCITT for every
\* byte sequence.
C20_CRCIsReference ==
    enc.pc \in {"message", "escaped", "framed"} => enc.crc = ReferenceCRC(enc.payload)

\* The creator of the given kind has built its payload.
Created(kind) ==
    /\ enc.input.kind = kind
    /\ enc.pc \in {"payload", "message", "escaped", "framed"}

\* The 12-bit altitude code an ownship payload carries, read where
\* createOwnshipReport writes it.
AltitudeCode(payload) == payload[13] * 16 + payload[14] \div 16

C22_EncodersNeverFail ==
    /\ enc.input.kind \in {"ownship", "geoalt"}
    /\ enc.input.position.latitude >= -900000
    /\ enc.input.position.latitude <= 900000
    /\ enc.input.position.longitude >= -1800000
    /\ enc.input.position.longitude <= 1800000
    => enc.pc # "thrown"

\* Byte i of a payload, counted from 0 as in the code.
ByteAt(payload, i) == payload[i + 1]

\* Three bytes read as a big-endian two's-complement integer.
Signed24(b) ==
    LET u == b[1] * 65536 + b[2] * 256 + b[3]
    IN  IF u >= 8388608 THEN u - 16777216 ELSE u

\* semicircles * 180 / 2^23 is within one unit, 180 / 2^23 degree, of x
\* (in 1e-4 degree): |semicircles - x * 131072 / 28125| <= 1.  The exact
\* quotient x * 131072 / 28125 lies from its floor to its ceiling, both
\* computed in steps that stay below 2^31.
WithinOneUnit(semicircles, x) ==
    LET q1 == x \div 28125
        r1 == x % 28125
        q2 == (r1 * 512) \div 28125
        r2 == (r1 * 512) % 28125
        floor == q1 * 131072 + q2 * 256 + (r2 * 256) \div 28125
        ceiling == IF (r2 * 256) % 28125 = 0 THEN floor ELSE floor + 1
    IN  /\ semicircles - 1 <= floor
        /\ ceiling <= semicircles + 1

\* The values the round trip is stated for, in 1e-4 degree.
RepresentativeValues == {0, 900000, -900000, 398283, -985795}

\* C23: latitude and longitude are written as 3-byte big-endian
\* two's-complement semicircles; for 0, 90, -90, 39.8283 and -98.5795 the
\* 3 bytes of the report, read as a signed 24-bit integer and multiplied by
\* 180 / 2^23, are within one semicircle unit of the input.
C23_SemicirclesRoundTrip ==
    Created("ownship") =>
        LET lat == enc.input.position.latitude
            lon == enc.input.position.longitude
        IN  /\ lat \in RepresentativeValues
                => WithinOneUnit(Signed24(SubSeq(enc.payload, 7, 9)), lat)
            /\ lon \in RepresentativeValues
                => WithinOneUnit(Signed24(SubSeq(enc.payload, 10, 12)), lon)

\* A report built for longitude -98.5795: -4594138 semicircles, B9 E6 26.
C23_Witness ==
    /\ Created("ownship")
    /\ enc.input.position.longitude = -985795
    /\ SubSeq(enc.payload, 10, 12) = <<185, 230, 38>>
    /\ Signed24(SubSeq(enc.payload, 10, 12)) = -4594138

\* The 12-bit vertical-velocity field of an ownship payload, read where
\* createOwnshipReport writes it.
VerticalVelocityCode(payload) == (payload[17] % 16) * 256 + payload[18]

\* C24: the vertical-velocity field has its sign bit 0x800 set exactly when
\* round(fpm / 64) is negative and holds |round(fpm / 64)| in its low 11
\* bits, a magnitude over 0x7FF clamped to 0x7FF for climbs and descents
\* alike.
C24_VerticalVelocitySignMagnitude ==
    Created("ownship") =>
        LET encoded == RoundDiv(enc.input.position.verticalSpeed, 64)
            magnitude == IF encoded < 0 THEN -encoded ELSE encoded
            code == VerticalVelocityCode(enc.payload)
        IN  /\ code >= 2048 <=> encoded < 0
            /\ code % 2048 = Min(magnitude, 2047)

\* Two bytes read as a big-endian two's-complement integer.
Signed16(hi, lo) ==
    LET u == hi * 256 + lo
    IN  IF u >= 32768 THEN u - 65536 ELSE u

\* C25: in the geometric-altitude payload bytes 1-2 read as a big-endian
\* signed 16-bit integer equal to round(feet / 5), for every altitude the
\* broadcaster can store, and bytes 3-4 are 0x00.
C25_GeometricAltitudeSigned16 ==
    Created("geoalt") =>
        /\ Len(enc.payload) = 5
        /\ Signed16(ByteAt(enc.payload, 1), ByteAt(enc.payload, 2))
               = RoundDiv(enc.input.position.altitude, 5)
        /\ ByteAt(enc.payload, 3) = 0
        /\ ByteAt(enc.payload, 4) = 0

\* C26: the heartbeat payload is 7 bytes with byte0 = 0x00, byte1 = 0x81,
\* byte2 = 0x00 and byte6 = 0x00, and for every second s of the UTC day
\* bytes 3-5 decode to s as byte3 * 65536 + byte4 * 256 + byte5, byte3
\* being 0 or 1.
C26_HeartbeatPayload ==
    Created("heartbeat") =>
        LET s == enc.input.hours * 3600 + enc.input.minutes * 60 + enc.input.seconds
        IN  /\ Len(enc.payload) = 7
            /\ ByteAt(enc.payload, 0) = 0
            /\ ByteAt(enc.payload, 1) = 129
            /\ ByteAt(enc.payload, 2) = 0
            /\ ByteAt(enc.payload, 6) = 0
            /\ ByteAt(enc.payload, 3) \in {0, 1}
            /\ ByteAt(enc.payload, 3) * 65536 + ByteAt(enc.payload, 4) * 256
                   + ByteAt(enc.payload, 5) = s

\* The heartbeat of 23:59:59, s = 86399 = 0x01517F.
C26_Witness ==
    /\ Created("heartbeat")
    /\ enc.input.hours = 23 /\ enc.input.minutes = 59 /\ enc.input.seconds = 59
    /\ SubSeq(enc.payload, 4, 6) = <<1, 81, 127>>

\* The texts of a sequence, a comma before each.
RECURSIVE CommaBefore(_)
CommaBefore(texts) ==
    IF texts = <<>> THEN "" ELSE "," \o Head(texts) \o CommaBefore(Tail(texts))

\* C27: the XGPS datagram is 'XGPS' and the name, then five comma-separated
\* fields in the order longitude, latitude, altitude in metres, heading,
\* speed in m/s, and nothing after them; for latitude 39.8283, longitude
\* -98.5795, 5000 ft, heading 0, ground speed 0 and the name FlightSim it is
\* XGPSFlightSim,-98.57950000,39.82830000,1524.0,0.00,0.0.
C27_XGPSDatagram ==
    enc.pc = "text" =>
        LET p == enc.input.position
        IN  /\ enc.text = "XGPS" \o SimulatorName
                          \o CommaBefore(<<DegreesToFixed8(p.longitude),
                                           DegreesToFixed8(p.latitude),
                                           MetersToFixed1(p.altitude),
                                           ToFixed(p.heading, 1, 2),
                                           MpsToFixed1(p.groundSpeed)>>)
            /\ (/\ p.latitude = 398283 /\ p.longitude = -985795
                /\ p.altitude = 5000 /\ p.heading = 0 /\ p.groundSpeed = 0)
               => enc.text = "XGPSFlightSim,-98.57950000,39.82830000,1524.0,0.00,0.0"
            /\ p = OtherPosition
               => enc.text = "XGPSFlightSim,-104.67370000,39.85610000,2286.0,90.00,61.7"

\* The datagram of the default position has been built.
C27_Witness ==
    /\ enc.pc = "text"
    /\ enc.input.position = DefaultPosition
    /\ enc.text = "XGPSFlightSim,-98.57950000,39.82830000,1524.0,0.00,0.0"
    /\ Len(enc.text) = 54

\* C30: in the ownship payload, bytes counted from 0, the altitude code is
\* byte11 * 16 + (byte12 >> 4) with the low nibble of byte12 equal to 0xB,
\* the horizontal-velocity code is byte14 * 16 + (byte15 >> 4), the
\* vertical-velocity code is (byte15 & 0x0F) * 256 + byte16; the payload is
\* 28 bytes and the altitude and horizontal-velocity codes are in 0..0xFFE.
C30_TwelveBitFields ==
    Created("ownship") =>
        LET p == enc.input.position
            b(i) == ByteAt(enc.payload, i)
        IN  /\ Len(enc.payload) = 28
            /\ b(11) * 16 + b(12) \div 16 = encodeAltitude(p.altitude)
            /\ b(12) % 16 = 11
            /\ b(14) * 16 + b(15) \div 16 = encodeVelocity(p.groundSpeed)
            /\ (b(15) % 16) * 256 + b(16) = encodeVerticalVelocity(p.verticalSpeed)
            /\ encodeAltitude(p.altitude) \in 0..4094
            /\ encodeVelocity(p.groundSpeed) \in 0..4094

\* C28: through the control API the destination port never changes while
\* the broadcaster is Running: a config request that carries a port while
\* Running is rejected and leaves the whole stored config (port, address,
\* rate) as it was, whatever address or rate the same request carries.
C28_PortFixedWhileRunning ==
    [][isRunning =>
          /\ config'.port = config.port
          /\ last'.op \in {"PUT /config", "updateConfig"} =>
                 \A body \in ConfigBodies :
                     body.port # <<>> /\ RouteConfig(body)
                         => /\ last'.op = "PUT /config"
                            /\ config' = config]_vars

\* A config request with a port has been rejected for the running server.
C28_Witness ==
    /\ isRunning
    /\ last = [op |-> "PUT /config",
               res |-> "400: Cannot change port while server is running. Stop the server first."]

\* The server's fields a rejected request leaves alone.
Untouched ==
    UNCHANGED <<isRunning, socket, config, currentPosition, heartbeatInterval,
                positionInterval, sockets, timers>>

\* C29: a start request while Running and a stop request while Stopped are
\* answered with an error, and a position request while Stopped or with
\* latitude outside [-90, 90], longitude outside [-180, 180] or heading
\* outside [0, 360) is rejected; none of them changes the server, the stored
\* position included.
C29_PreconditionViolationsRejected ==
    [][/\ isRunning /\ RouteStart
           => last' = [op |-> "POST /start", res |-> "400: Server is already running"]
              /\ Untouched
       /\ ~isRunning /\ RouteStop
           => last' = [op |-> "POST /stop", res |-> "400: Server is not running"]
              /\ Untouched
       /\ last'.op \in {"POST /position", "updatePosition"} =>
          \A body \in PositionBodies :
              /\ \/ ~isRunning
                 \/ body.latitude < -900000 \/ body.latitude > 900000
                 \/ body.longitude < -1800000 \/ body.longitude > 1800000
                 \/ body.heading < 0 \/ body.heading >= 360
              /\ RoutePosition(body)
              => /\ last'.op = "POST /position"
                 /\ Untouched]_vars

\* A position with heading 360 has been rejected for the running server,
\* which keeps the position stored before.
C29_Witness ==
    /\ isRunning
    /\ currentPosition = <<OtherPosition>>
    /\ last = [op |-> "POST /position", res |-> "400: Heading must be between 0 and 359"]

\* The live timers of a message class.
LiveOfKind(kind) == {t \in TimerIds : timers[t].kind = kind}

\* C31: at most one timer per message class is live at any time, after any
\* sequence of start, stop, updatePosition, updateConfig and bind
\* completions, overlapping start calls included: at most one live position
\* interval and at most one live heartbeat interval, each the one its handle
\* field refers to.
C31_OneTimerPerClass ==
    /\ Cardinality(LiveOfKind("position")) <= 1
    /\ Cardinality(LiveOfKind("heartbeat")) <= 1
    /\ \A t \in LiveOfKind("position") : positionInterval = t
    /\ \A t \in LiveOfKind("heartbeat") : heartbeatInterval = t

\* The promise of a start() made on a server that was not running is
\* rejected in this step: for the missing address, by the 'error' event of
\* its socket, or by an error caught in its bind callback.
StartRejects ==
    \/ last'.op = "start" /\ last'.res = "InvalidConfiguration"
    \/ last'.op = "error"
         /\ \E s \in SocketIds : sockets[s].prom = "pending" /\ sockets'[s].prom # "pending"
    \/ last'.op = "bind" /\ last'.res = "rejected"

\* C32: whenever a start() call fails, the broadcaster is left Stopped: the
\* running flag is false, no timer is armed and no socket is held, whether
\* the cause is the precondition, a socket error before the bind, or an
\* error raised inside the bind callback.  (A call refused because the
\* server is already running is left aside.)
C32_FailedStartLeavesStopped ==
    [][StartRejects
        => /\ ~isRunning'
           /\ socket' = Nil
           /\ heartbeatInterval' = Nil
           /\ positionInterval' = Nil
           /\ LiveTimers' = {}]_vars

\* C33: in every state where the broadcaster is Stopped and no start() call
\* is pending, the socket, the heartbeat handle and the position handle are
\* all null.
C33_StoppedHoldsNothing ==
    (~isRunning /\ \A s \in SocketIds : sockets[s].prom # "pending")
        => /\ socket = Nil
           /\ heartbeatInterval = Nil
           /\ positionInterval = Nil

\* C34: if stop() is called after start() but before the bind completes,
\* then once that stop() has returned the broadcaster does not become
\* Running and submits no datagram unless start() is called again: the
\* step that follows the return of such a stop() leaves the server stopped
\* and submits nothing.
C34_StopBeforeBindHolds ==
    [][(last.op = "stop" /\ ~isRunning /\ \E s \in SocketIds : sockets[s].st = "binding")
        => (~isRunning' /\ lastSent' = <<>>)]_vars

\* C35: in every state where the broadcaster is Running the stored
\* destination address is non-empty, and every datagram submitted to the
\* transport is addressed to a non-empty host, also across the updateConfig
\* calls the control API makes while Running.
C35_RunningHasAddress ==
    /\ isRunning => config.targetIP # ""
    /\ \A i \in DOMAIN lastSent : lastSent[i].targetIP # ""

\* The message classes of a position round of the variant.
PositionClasses == IF variant = "XGPS" THEN {"xgps"} ELSE {"ownship", "geoalt"}

\* C36: updateConfig that changes the rate of a running server whose
\* position timer is armed cancels that timer, arms exactly one new one, of
\* the period of the new rate, and submits one position round at once;
\* updateConfig that leaves the rate as it is, or is called on a stopped
\* server or with no position timer armed, submits nothing and touches no
\* timer.
C36_RateChangeRearms ==
    [][last'.op = "updateConfig"
        => IF isRunning /\ positionInterval # Nil /\ config'.updateRate # config.updateRate
           THEN /\ positionInterval' # Nil
                /\ timers'[positionInterval'] =
                       [kind |-> "position", period |-> 1000 \div config'.updateRate]
                /\ positionInterval' # positionInterval
                       => timers'[positionInterval] = NoTimer
                /\ \A t \in TimerIds \ {positionInterval, positionInterval'} :
                       timers'[t] = timers[t]
                /\ heartbeatInterval' = heartbeatInterval
                /\ Len(lastSent') = Cardinality(PositionClasses)
                /\ \A c \in PositionClasses : ClassCount(c)' = 1
           ELSE /\ lastSent' = <<>>
                /\ timers' = timers
                /\ positionInterval' = positionInterval
                /\ heartbeatInterval' = heartbeatInterval]_vars

\* updateConfig re-armed the position timer of a running XGPS server at
\* 5 Hz and submitted its one datagram.
C36_Witness ==
    /\ variant = "XGPS" /\ isRunning
    /\ last.op = "updateConfig" /\ last.res = "rearmed"
    /\ config.updateRate = 5
    /\ timers[positionInterval] = [kind |-> "position", period |-> 200]
    /\ Len(lastSent) = 1 /\ lastSent[1].cls = "xgps"

\* C37: stop() changes only the running flag, the socket and the timer
\* handles: the stored position and the config are after stop() what they
\* were before it; and once a position is stored, by the constructor or by
\* updatePosition, the stored position is never null again.
C37_StopKeepsPositionAndConfig ==
    [][/\ last'.op = "stop" => UNCHANGED <<config, currentPosition>>
       /\ currentPosition # <<>> => currentPosition' # <<>>]_vars

\* stop() took down a server that keeps the position and the rate it was
\* given.
C37_Witness ==
    /\ last.op = "stop" /\ last.res = "stopped"
    /\ ~isRunning /\ socket = Nil
    /\ currentPosition = <<OtherPosition>>
    /\ config.updateRate = 5

====
